---- MODULE Spec2Model ----
(***************************************************************************)
(* Model of the rodent-care backend's integration core: the API gateway    *)
(* (sliding-window rate limiter, auth delegate, reverse proxy), the        *)
(* analytics event consumer and the producers' event publisher.            *)
(***************************************************************************)
EXTENDS Integers, Sequences, FiniteSets, TLC

(***************************************************************************)
(* Bounds of the model.                                                    *)
(***************************************************************************)
\* Last instant of the monotonic clock (Instant::now()).
MaxTime == 2
\* How many events the producers publish.
MaxEvents == 3
\* Last instant of the clock while the gateway serves requests.
GwMaxTime == 1
\* Last instant of the clock while threads call the rate limiter concurrently.
ConcMaxTime == 2
\* Deliveries pulled up to which the analytics process may still die.
MaxDeliveries == 2
\* Rows the refresh_tokens table may come to hold.
MaxTokens == 3
\* RateLimiter.max_requests as configured for the model.
max_requests == 3
\* RateLimiter.window, in clock ticks.
window == 2

\* Client identities: the X-Forwarded-For value, or the "unknown" sentinel.
Keys == {"unknown", "10.0.0.1"}

VARIABLES
    now,          \* Instant::now(), monotonic
    requests,     \* RateLimiter.requests: DashMap<String, Vec<Instant>>
    allowedLog,   \* history: per key, the instants of every allowed check (never pruned)
    solo,         \* history: per key, the limiter as it would be had only that key been used
    lastCall,     \* history: the last limiter call, with its result
    thr,          \* the threads inside check_rate_limit: the Instant each read, its key
    req,          \* the gateway request in flight: its place in the pipeline and what it did
    px,           \* a proxy_request call: its arguments, what it sent, got and answered
    brokerUp,     \* the AMQP broker is reachable
    exchange,     \* the durable topic exchange rodent_care_events is declared
    queueDeclared,\* the durable queue analytics_events is declared
    bindings,     \* the routing patterns the queue is bound to
    queue,        \* the messages ready in analytics_events, oldest first
    unacked,      \* the messages delivered to the consumer and not acknowledged
    published,    \* how many events the producers have published
    conPc,        \* where the spawned consumer task stands
    connAlive,    \* the consumer's connection / channel is open
    streamErr,    \* the delivery stream has yielded its connection error
    cur,          \* the delivery being handled, or handled last, with what was done for it
    auditLog,     \* the event_logs collection
    chan,         \* MessagePublisher.channel: None, or Some channel that is live or dead
    readers,      \* the publish calls holding the channel's read lock
    tasks,        \* the publish_* calls of the producing service, one per task
    lost,         \* history: the broker has gone away since the publisher was built
    wr,           \* the write request a producing service is handling, in two worlds
    auth          \* the user service: refresh_tokens rows, users, the calls under way

limVars == <<now, requests, allowedLog, solo, lastCall, thr>>
gwVars == <<req, px>>
brokerVars == <<brokerUp, exchange, queueDeclared, bindings, queue, unacked, published>>
conVars == <<conPc, connAlive, streamErr, cur, auditLog>>
pubVars == <<chan, readers, tasks, lost, wr, auth>>
vars == <<limVars, gwVars, brokerVars, conVars, pubVars>>

NoCall == [op |-> "none"]

(***************************************************************************)
(* RateLimiter (api-gateway/src/rate_limiter.rs)                           *)
(***************************************************************************)
\* Mutant of Retain: an entry exactly one window old is kept.
RetainInclusive(list, t) == SelectSeq(list, LAMBDA time : t - time <= window)

\* entry.retain(|&time| now.duration_since(time) < self.window)
Retain(list, t) == SelectSeq(list, LAMBDA time : t - time < window)

\* self.requests.entry(key).or_insert_with(Vec::new)
EntryOrInsert(map, key) == IF key \in DOMAIN map THEN map[key] ELSE <<>>

\* map with key's list set to list (the entry is created when absent)
Put(map, key, list) ==
    [k \in (DOMAIN map) \cup {key} |-> IF k = key THEN list ELSE map[k]]

\* Mutant of CheckRateLimit: the quota is counted over every key's entries.
CheckRateLimitShared(map, key, t) ==
    LET kept == SelectSeq(EntryOrInsert(map, key), LAMBDA time : t - time < window)
        full == \E k \in DOMAIN map :
                    Len(SelectSeq(map[k], LAMBDA time : t - time < window)) >= max_requests IN
    IF full
    THEN [map |-> Put(map, key, kept), allowed |-> FALSE]
    ELSE [map |-> Put(map, key, Append(kept, t)), allowed |-> TRUE]

\* Mutant of CheckRateLimit: a denied call is recorded like an allowed one.
CheckRateLimitRecordsDenied(map, key, t) ==
    LET kept == SelectSeq(EntryOrInsert(map, key), LAMBDA time : t - time < window) IN
    [map |-> Put(map, key, Append(kept, t)), allowed |-> Len(kept) < max_requests]

\* check_rate_limit(key) at instant t: the new map and the returned bool
CheckRateLimit(map, key, t) ==
    LET kept == Retain(EntryOrInsert(map, key), t) IN
    IF Len(kept) >= max_requests
    THEN [map |-> Put(map, key, kept), allowed |-> FALSE]
    ELSE [map |-> Put(map, key, Append(kept, t)), allowed |-> TRUE]

\* u32::saturating_sub
SaturatingSub(a, b) == IF a >= b THEN a - b ELSE 0

\* Mutant of GetRemaining: asking for the remaining count uses one up.
GetRemainingCounting(map, key, t) ==
    LET kept == SelectSeq(EntryOrInsert(map, key), LAMBDA time : t - time < window) IN
    [map |-> Put(map, key, Append(kept, t)),
     remaining |-> IF max_requests >= Len(kept) THEN max_requests - Len(kept) ELSE 0]

\* get_remaining(key) at instant t: the new map and the returned count
GetRemaining(map, key, t) ==
    IF key \in DOMAIN map
    THEN LET kept == Retain(map[key], t) IN
         [map |-> Put(map, key, kept), remaining |-> SaturatingSub(max_requests, Len(kept))]
    ELSE [map |-> map, remaining |-> max_requests]

\* number of allowed checks logged for a key whose instant lies in the trailing window
InWindow(log, t) == Cardinality({i \in 1..Len(log) : t - log[i] < window})

EmptyMap == [k \in {} |-> <<>>]

\* The worker threads that serve requests at the same time.
Threads == {"w1", "w2"}

LimInit ==
    /\ now = 0
    /\ requests = EmptyMap
    /\ allowedLog = [k \in Keys |-> <<>>]
    /\ solo = [k \in Keys |-> EmptyMap]
    /\ lastCall = NoCall
    /\ thr = [th \in Threads |-> [pc |-> "idle", key |-> "unknown", t |-> 0]]

\* The monotonic clock advances.
Tick ==
    /\ now < MaxTime
    /\ now' = now + 1
    /\ UNCHANGED <<requests, allowedLog, solo, lastCall, thr, gwVars, brokerVars, conVars,
                   pubVars>>

\* A caller runs check_rate_limit(key).
CallCheck(key) ==
    LET r == CheckRateLimit(requests, key, now)
        s == CheckRateLimit(solo[key], key, now) IN
    /\ requests' = r.map
    /\ solo' = [solo EXCEPT ![key] = s.map]
    /\ allowedLog' = IF r.allowed
                     THEN [allowedLog EXCEPT ![key] = Append(@, now)]
                     ELSE allowedLog
    /\ lastCall' = [op |-> "check", key |-> key, allowed |-> r.allowed,
                    soloAllowed |-> s.allowed,
                    prior |-> InWindow(allowedLog[key], now)]
    /\ UNCHANGED <<now, thr, gwVars, brokerVars, conVars, pubVars>>

\* A caller runs get_remaining(key).
CallRemaining(key) ==
    LET r == GetRemaining(requests, key, now)
        s == GetRemaining(solo[key], key, now) IN
    /\ requests' = r.map
    /\ solo' = [solo EXCEPT ![key] = s.map]
    /\ lastCall' = [op |-> "remaining", key |-> key, remaining |-> r.remaining,
                    soloRemaining |-> s.remaining,
                    prior |-> InWindow(allowedLog[key], now)]
    /\ UNCHANGED <<now, allowedLog, thr, gwVars, brokerVars, conVars, pubVars>>

\* The history of allowed instants with one more, kept in the order of the instants.
Logged(log, t) ==
    SelectSeq(log, LAMBDA time : time <= t) \o <<t>> \o SelectSeq(log, LAMBDA time : time > t)

\* A thread enters check_rate_limit(key): let now = Instant::now().
ThrNow(th, key) ==
    /\ thr[th].pc = "idle"
    /\ thr' = [thr EXCEPT ![th] = [pc |-> "entry", key |-> key, t |-> now]]
    /\ UNCHANGED <<now, requests, allowedLog, solo, lastCall, gwVars, brokerVars, conVars,
                   pubVars>>

\* The thread gets the key's entry (the DashMap shard stays locked while the RefMut
\* lives) and prunes, counts and appends with the Instant it read on entering.
ThrEntry(th) ==
    /\ thr[th].pc = "entry"
    /\ LET key == thr[th].key
           r == CheckRateLimit(requests, key, thr[th].t) IN
       /\ requests' = r.map
       /\ allowedLog' = IF r.allowed
                        THEN [allowedLog EXCEPT ![key] = Logged(@, thr[th].t)]
                        ELSE allowedLog
    /\ thr' = [thr EXCEPT ![th].pc = "idle"]
    /\ UNCHANGED <<now, solo, lastCall, gwVars, brokerVars, conVars, pubVars>>

\* The clock advances while the threads run.
ConcTick == now < ConcMaxTime /\ Tick

\* Threads calling check_rate_limit concurrently while the clock advances.
ConcurrentNext ==
    \/ ConcTick
    \/ \E th \in Threads, key \in Keys : ThrNow(th, key)
    \/ \E th \in Threads : ThrEntry(th)

(***************************************************************************)
(* Gateway pipeline (api-gateway/src/handlers.rs, middleware.rs, proxy.rs, *)
(* error.rs).  One request is in flight at a time; the rate limiter is the *)
(* state shared by successive requests.                                    *)
(***************************************************************************)
\* The route groups of create_routes.
Routes == {"health", "public_auth", "protected_user", "rodents", "activities",
           "analytics", "fallback"}

\* The groups wrapped in .layer(from_fn_with_state(state, auth_middleware)).
Protected(route) == route \in {"protected_user", "rodents", "activities"}

\* The groups whose handler is a proxy_to_* function, and the upstream it names.
Proxied(route) == route \in {"public_auth", "protected_user", "rodents", "activities", "analytics"}
Target(route) ==
    CASE route \in {"public_auth", "protected_user"} -> "user_service"
      [] route = "rodents" -> "rodent_registry_service"
      [] route = "activities" -> "activity_tracking_service"
      [] route = "analytics" -> "analytics_service"
      [] OTHER -> "none"

\* GatewayError::into_response: the status of each error variant.
StatusOf(err) ==
    CASE err = "InvalidToken" -> 401
      [] err = "TokenExpired" -> 401
      [] err = "AccessDenied" -> 403
      [] err = "RateLimitExceeded" -> 429
      [] err = "ServiceUnavailable" -> 503
      [] err = "BadGateway" -> 502
      [] err = "InternalError" -> 500

\* The Authorization header of a request, as auth_middleware tells them apart.
Headers == {"absent", "not_bearer", "bearer"}

\* What the identity service may answer: valid, and which optional fields it gives.
NoAnswer == [kind |-> "none"]
Answers ==
    {[kind |-> "json", valid |-> TRUE, user_id |-> f[1], username |-> f[2], role |-> f[3]] :
        f \in {<<TRUE, TRUE, TRUE>>, <<FALSE, TRUE, TRUE>>, <<TRUE, FALSE, TRUE>>,
               <<TRUE, TRUE, FALSE>>, <<FALSE, FALSE, FALSE>>}}
    \cup
    {[kind |-> "json", valid |-> FALSE, user_id |-> p, username |-> p, role |-> p] :
        p \in BOOLEAN}
\* How a validation call may end: send() fails, text() fails, the body does not
\* parse as a TokenValidationResponse, or an answer is parsed.
ValidationOutcomes ==
    {[kind |-> "send_error"], [kind |-> "text_error"], [kind |-> "parse_error"]} \cup Answers

\* How an upstream call may end: send() fails, bytes() fails, or a status comes back.
UpstreamStatuses == {200, 404, 500}
UpstreamOutcomes ==
    {[kind |-> "send_error"], [kind |-> "bytes_error"]}
        \cup {[kind |-> "response", status |-> st] : st \in UpstreamStatuses}

\* No proxy_request call yet.
NoProxyCall ==
    [pc |-> "idle", method |-> "GET", body |-> <<>>, sent |-> <<>>,
     up |-> [kind |-> "none"], status |-> 0, respBody |-> <<>>]

Idle ==
    [pc |-> "idle", route |-> "health", key |-> "unknown", header |-> "absent",
     calls |-> <<>>, allowed |-> TRUE, answer |-> NoAnswer, auth_info |-> FALSE,
     status |-> 0, validation |-> "none", earlier |-> "none"]

GwInit == req = Idle /\ px = NoProxyCall

\* A client request reaches the router.
Arrive(route, key, header) ==
    /\ req.pc = "idle"
    /\ req' = [Idle EXCEPT !.pc = "rate_limit", !.route = route, !.key = key,
                           !.header = header, !.earlier = req.earlier]
    /\ UNCHANGED <<px, limVars, brokerVars, conVars, pubVars>>

\* Mutant of RateLimitOutcome: a denied check is logged and the request goes on.
RateLimitOutcomeLogOnly(allowed) == [next |-> TRUE, status |-> 0]

\* rate_limit_middleware: Err(RateLimitExceeded) when the check is denied, else next.run.
RateLimitOutcome(allowed) ==
    IF ~allowed THEN [next |-> FALSE, status |-> StatusOf("RateLimitExceeded")]
    ELSE [next |-> TRUE, status |-> 0]

\* The layer below the rate limiter for a route: auth_middleware on the protected
\* groups, the handler otherwise.
AfterRateLimit(route) == IF Protected(route) THEN "auth" ELSE "handler"

RateLimitMiddleware ==
    /\ req.pc = "rate_limit"
    /\ LET r == CheckRateLimit(requests, req.key, now)
           o == RateLimitOutcome(r.allowed) IN
       /\ requests' = r.map
       /\ req' = [req EXCEPT !.calls = Append(@, "rate_check"),
                             !.allowed = r.allowed,
                             !.pc = IF o.next THEN AfterRateLimit(req.route) ELSE "responded",
                             !.status = o.status]
    /\ UNCHANGED <<px, now, allowedLog, solo, lastCall, thr, brokerVars, conVars, pubVars>>

\* Mutant of HasBearerToken: the header is not looked at before validating.
HasBearerTokenAlways(header) == TRUE

\* auth_middleware: the Authorization header is there and starts with "Bearer ".
HasBearerToken(header) == header = "bearer"

\* Mutant of Decision: a token that validated for an earlier request is taken as
\* valid again.
DecisionCached(v, earlier) ==
    IF earlier = "accepted"
    THEN [kind |-> "json", valid |-> TRUE, user_id |-> TRUE, username |-> TRUE,
          role |-> TRUE]
    ELSE v

\* auth_middleware: the validation it decides on is the one its own call just
\* returned; nothing of an earlier request with the token is kept.
Decision(v, earlier) == v

\* Mutant of AuthOutcome: any parsed answer lets the request through.
AuthOutcomeAnyAnswer(header, v) ==
    IF header # "bearer"
    THEN [called |-> FALSE, next |-> FALSE, auth_info |-> FALSE, status |-> 401]
    ELSE IF v.kind = "send_error"
    THEN [called |-> TRUE, next |-> FALSE, auth_info |-> FALSE, status |-> 503]
    ELSE IF v.kind \in {"text_error", "parse_error"}
    THEN [called |-> TRUE, next |-> FALSE, auth_info |-> FALSE, status |-> 500]
    ELSE [called |-> TRUE, next |-> TRUE,
          auth_info |-> (v.user_id /\ v.username /\ v.role), status |-> 0]

\* auth_middleware, given the header and how the validation call ends: whether a
\* validation call is made, whether next.run is reached, whether AuthInfo is
\* attached, and the error status otherwise.
AuthOutcome(header, v) ==
    IF ~HasBearerToken(header)
    THEN [called |-> FALSE, next |-> FALSE, auth_info |-> FALSE,
          status |-> StatusOf("InvalidToken")]
    ELSE IF v.kind = "send_error"
    THEN [called |-> TRUE, next |-> FALSE, auth_info |-> FALSE,
          status |-> StatusOf("ServiceUnavailable")]
    ELSE IF v.kind \in {"text_error", "parse_error"}
    THEN [called |-> TRUE, next |-> FALSE, auth_info |-> FALSE,
          status |-> StatusOf("InternalError")]
    ELSE IF ~v.valid
    THEN [called |-> TRUE, next |-> FALSE, auth_info |-> FALSE,
          status |-> StatusOf("InvalidToken")]
    ELSE [called |-> TRUE, next |-> TRUE,
          auth_info |-> (v.user_id /\ v.username /\ v.role), status |-> 0]

AuthMiddleware(v) ==
    /\ req.pc = "auth"
    /\ LET o == AuthOutcome(req.header, Decision(v, req.earlier)) IN
       req' = [req EXCEPT !.calls = IF o.called THEN Append(@, "validate") ELSE @,
                          !.answer = IF o.called /\ v.kind = "json" THEN v ELSE NoAnswer,
                          !.validation = IF o.called THEN v.kind ELSE "none",
                          !.auth_info = o.auth_info,
                          !.pc = IF o.next THEN "handler" ELSE "responded",
                          !.status = o.status]
    /\ UNCHANGED <<px, limVars, brokerVars, conVars, pubVars>>

\* Mutant of ProxyStatus: every failure of the upstream call is an internal error.
ProxyStatusFlat(u) == IF u.kind = "response" THEN u.status ELSE StatusOf("InternalError")

\* proxy_request, given how the upstream call ends: the status of the response.
ProxyStatus(u) ==
    IF u.kind = "send_error" THEN StatusOf("ServiceUnavailable")
    ELSE IF u.kind = "bytes_error" THEN StatusOf("BadGateway")
    ELSE u.status

(***************************************************************************)
(* proxy_request step by step (api-gateway/src/proxy.rs).                  *)
(***************************************************************************)
\* Request methods, and the ones whose body proxy_request forwards.
Methods == {"GET", "DELETE", "POST", "PUT", "PATCH"}
BodyMethods == {"POST", "PUT", "PATCH"}

\* Bodies, as byte sequences: empty, the bytes of {"x":1}, and bytes that are not
\* text.
Bodies == {<<>>, <<123, 34, 120, 34, 58, 49, 125>>, <<0, 255>>}

\* Mutant of ForwardedBody: the request goes upstream without its body.
ForwardedBodyNone(method, body) == <<>>

\* The body given to the outbound request: the inbound bytes for POST, PUT and
\* PATCH, none otherwise.
ForwardedBody(method, body) == IF method \in BodyMethods THEN body ELSE <<>>

\* The body of the gateway's response: Body::from of the bytes read from upstream.
ResponseBody(bytes) == bytes

\* proxy_request is called with a request.
PxCall(method, body) ==
    /\ px.pc \in {"idle", "done"}
    /\ px' = [NoProxyCall EXCEPT !.pc = "body", !.method = method, !.body = body]
    /\ UNCHANGED <<req, limVars, brokerVars, conVars, pubVars>>

\* The inbound body is buffered (to_bytes) for POST, PUT and PATCH and set on the
\* outbound request; failing to read it is an InternalError.
PxBody(readOk) ==
    /\ px.pc = "body"
    /\ px' = IF px.method \in BodyMethods /\ ~readOk
             THEN [px EXCEPT !.pc = "done", !.status = StatusOf("InternalError")]
             ELSE [px EXCEPT !.pc = "send", !.sent = ForwardedBody(px.method, px.body)]
    /\ UNCHANGED <<req, limVars, brokerVars, conVars, pubVars>>

\* How an awaited step of an outbound call ends: it succeeds, the connection fails
\* (refused, reset), or the client's 30 s timeout expires during it.
CallEndings == {"ok", "connection", "timeout"}

\* builder.send(): it fails, or the upstream answers with a status and a body, which
\* is the body it was sent when the upstream echoes.
PxSend(ending, status, echo, other) ==
    /\ px.pc = "send"
    /\ px' = IF ending # "ok"
             THEN [px EXCEPT !.pc = "done",
                             !.up = [kind |-> "send_error", cause |-> ending],
                             !.status = ProxyStatus([kind |-> "send_error"])]
             ELSE [px EXCEPT !.pc = "bytes",
                             !.up = [kind |-> "response", status |-> status, echo |-> echo,
                                     body |-> IF echo THEN px.sent ELSE other]]
    /\ UNCHANGED <<req, limVars, brokerVars, conVars, pubVars>>

\* response.bytes(), then the response is built with the upstream's status and body;
\* failing to read the body is a BadGateway.
PxBytes(ending) ==
    /\ px.pc = "bytes"
    /\ px' = IF ending # "ok"
             THEN [px EXCEPT !.pc = "done",
                             !.up = [kind |-> "bytes_error", cause |-> ending],
                             !.status = ProxyStatus([kind |-> "bytes_error"])]
             ELSE [px EXCEPT !.pc = "done", !.status = ProxyStatus(px.up),
                             !.respBody = ResponseBody(px.up.body)]
    /\ UNCHANGED <<req, limVars, brokerVars, conVars, pubVars>>

ProxyNext ==
    \/ \E method \in Methods, body \in Bodies : PxCall(method, body)
    \/ \E readOk \in BOOLEAN : PxBody(readOk)
    \/ \E ending \in CallEndings, echo \in BOOLEAN, status \in UpstreamStatuses,
          other \in Bodies :
          PxSend(ending, status, echo, other)
    \/ \E ending \in CallEndings : PxBytes(ending)

\* The handler of a proxied route: proxy_to_* calls proxy_request.
ProxyHandler(u) ==
    /\ req.pc = "handler"
    /\ Proxied(req.route)
    /\ req' = [req EXCEPT !.calls = Append(@, "upstream"),
                          !.pc = "responded",
                          !.status = ProxyStatus(u)]
    /\ UNCHANGED <<px, limVars, brokerVars, conVars, pubVars>>

\* health_check answers 200, fallback_handler 404, neither calls out.
LocalHandler ==
    /\ req.pc = "handler"
    /\ ~Proxied(req.route)
    /\ req' = [req EXCEPT !.pc = "responded",
                          !.status = IF req.route = "fallback" THEN 404 ELSE 200]
    /\ UNCHANGED <<px, limVars, brokerVars, conVars, pubVars>>

\* The response goes out to the client; the request is over.
Respond ==
    /\ req.pc = "responded"
    /\ req' = [Idle EXCEPT !.earlier =
                  IF req.validation = "json" /\ req.answer.valid THEN "accepted"
                  ELSE req.earlier]
    /\ UNCHANGED <<px, limVars, brokerVars, conVars, pubVars>>

\* The clock advances while the gateway serves.
GwTick == now < GwMaxTime /\ Tick

GwNext ==
    \/ GwTick
    \/ \E route \in Routes, key \in Keys, header \in Headers : Arrive(route, key, header)
    \/ RateLimitMiddleware
    \/ \E v \in ValidationOutcomes : AuthMiddleware(v)
    \/ \E u \in UpstreamOutcomes : ProxyHandler(u)
    \/ LocalHandler
    \/ Respond


LimNext ==
    \/ Tick
    \/ \E key \in Keys : CallCheck(key)
    \/ \E key \in Keys : CallRemaining(key)

(***************************************************************************)
(* Analytics event consumer (analytics-service/src/messaging.rs, events.rs)*)
(* and the broker it talks to.                                             *)
(***************************************************************************)
\* ACTIVITY_ROUTING_PATTERN, REGISTRY_ROUTING_PATTERN, as words.
ACTIVITY_ROUTING_PATTERN == <<"activity", "*">>
REGISTRY_ROUTING_PATTERN == <<"registry", "*">>

\* Topic-exchange matching: "*" stands for exactly one word.
Matches(pattern, key) ==
    /\ Len(pattern) = Len(key)
    /\ \A i \in 1..Len(pattern) : pattern[i] = "*" \/ pattern[i] = key[i]

\* The event types process_event has a branch for.
KnownTypes == {"DailyMetricsRecorded", "FeedingRecorded", "RodentRegistered",
               "RodentStatusChanged", "MedicalTreatmentAdded"}

\* Message bodies the producers (or anyone else) may publish: whether the bytes are
\* UTF-8, whether they are JSON, whether the object has event_type, event_id and
\* timestamp (GenericEvent), its event_type, and whether the payload has the shape of
\* that type's struct.
Body(utf8, json, envelope, type, payload) ==
    [utf8 |-> utf8, json |-> json, envelope |-> envelope, event_type |-> type,
     payload_ok |-> payload]
Samples ==
    {[key |-> <<"activity", "daily_metrics">>,
      body |-> Body(TRUE, TRUE, TRUE, "DailyMetricsRecorded", TRUE)],
     [key |-> <<"registry", "rodent_registered">>,
      body |-> Body(TRUE, TRUE, TRUE, "RodentRegistered", TRUE)],
     [key |-> <<"activity", "feeding">>,
      body |-> Body(TRUE, TRUE, TRUE, "FeedingRecorded", FALSE)],
     [key |-> <<"registry", "rodent_adopted">>,
      body |-> Body(TRUE, TRUE, TRUE, "RodentAdopted", TRUE)],
     [key |-> <<"registry", "medical_treatment">>,
      body |-> Body(TRUE, FALSE, FALSE, "", FALSE)],
     [key |-> <<"activity", "daily_metrics">>,
      body |-> Body(FALSE, FALSE, FALSE, "", FALSE)],
     [key |-> <<"user", "created">>,
      body |-> Body(TRUE, TRUE, TRUE, "UserCreated", TRUE)]}

\* Events as the producing services publish them: well formed, each type under its
\* fixed routing key.
ProducerSamples ==
    {[key |-> <<"activity", "daily_metrics">>,
      body |-> Body(TRUE, TRUE, TRUE, "DailyMetricsRecorded", TRUE)],
     [key |-> <<"activity", "feeding">>,
      body |-> Body(TRUE, TRUE, TRUE, "FeedingRecorded", TRUE)],
     [key |-> <<"registry", "rodent_registered">>,
      body |-> Body(TRUE, TRUE, TRUE, "RodentRegistered", TRUE)],
     [key |-> <<"registry", "rodent_status_changed">>,
      body |-> Body(TRUE, TRUE, TRUE, "RodentStatusChanged", TRUE)],
     [key |-> <<"registry", "medical_treatment">>,
      body |-> Body(TRUE, TRUE, TRUE, "MedicalTreatmentAdded", TRUE)]}

NoMessage == [id |-> 0, key |-> <<>>, body |-> Body(FALSE, FALSE, FALSE, "", FALSE)]
NoDelivery ==
    [tag |-> 0, msg |-> NoMessage, result |-> "none", reached |-> "none",
     acks |-> 0, audits |-> 0]

BrokerInit ==
    /\ brokerUp \in BOOLEAN
    /\ exchange = FALSE
    /\ queueDeclared = FALSE
    /\ bindings = {}
    /\ queue = <<>>
    /\ unacked = <<>>
    /\ published = 0

\* spawn_consumer: the task starts in start_consuming.
ConInit ==
    /\ conPc = "connect"
    /\ connAlive = FALSE
    /\ streamErr = FALSE
    /\ cur = NoDelivery
    /\ auditLog = <<>>

\* The producing service's tasks that call publish_*.
PubTasks == {"t1", "t2"}

\* Everything that runs MessagePublisher::connect: the publish calls and, before
\* them, MessagePublisher::new.
Callers == PubTasks \cup {"new"}

\* What the broker going away does to the publisher: the installed channel and the
\* connections being set up are dead from then on.
PublisherLosesConnection ==
    /\ chan' = IF chan = "Live" THEN "Dead" ELSE chan
    /\ tasks' = [t \in Callers |->
                    [tasks[t] EXCEPT !.conn = IF @ = "live" THEN "dead" ELSE @]]
    /\ lost' = TRUE
    /\ UNCHANGED <<readers, wr, auth>>

\* The broker becomes unreachable: every connection to it breaks and it takes back
\* the deliveries not acknowledged.  Durable exchange, queue and bindings stay.
BrokerDown ==
    /\ brokerUp
    /\ brokerUp' = FALSE
    /\ connAlive' = FALSE
    /\ queue' = unacked \o queue
    /\ unacked' = <<>>
    /\ PublisherLosesConnection
    /\ UNCHANGED <<exchange, queueDeclared, bindings, published, conPc, streamErr, cur,
                   auditLog, limVars, gwVars>>

BrokerBack ==
    /\ ~brokerUp
    /\ brokerUp' = TRUE
    /\ UNCHANGED <<exchange, queueDeclared, bindings, queue, unacked, published, conVars,
                   limVars, gwVars, pubVars>>

\* The exchange routes a published message to the queue when a binding matches.
Routed(key) == queueDeclared /\ \E b \in bindings : Matches(b, key)

\* A message is published to the exchange (basic_publish of some connected client).
Publish(m) ==
    /\ brokerUp
    /\ published < MaxEvents
    /\ published' = published + 1
    /\ queue' = IF Routed(m.key)
                THEN Append(queue, [id |-> published + 1, key |-> m.key, body |-> m.body])
                ELSE queue
    /\ UNCHANGED <<brokerUp, exchange, queueDeclared, bindings, unacked, conVars, limVars,
                   gwVars, pubVars>>

\* A step of start_consuming's setup: with the connection open it takes effect and
\* the task moves on, otherwise the ? returns the error to spawn_consumer's loop.
SetupStep(at, alive, then) ==
    /\ conPc = at
    /\ conPc' = IF alive THEN then ELSE "sleep"
    /\ UNCHANGED <<brokerUp, queue, unacked, published, streamErr, cur, auditLog,
                   limVars, gwVars, pubVars>>

\* Connection::connect and create_channel.
ConConnect ==
    /\ SetupStep("connect", brokerUp, "exchange_declare")
    /\ connAlive' = brokerUp
    /\ UNCHANGED <<exchange, queueDeclared, bindings>>

ConExchangeDeclare ==
    /\ SetupStep("exchange_declare", connAlive, "queue_declare")
    /\ exchange' = (exchange \/ connAlive)
    /\ UNCHANGED <<connAlive, queueDeclared, bindings>>

ConQueueDeclare ==
    /\ SetupStep("queue_declare", connAlive, "bind_activity")
    /\ queueDeclared' = (queueDeclared \/ connAlive)
    /\ UNCHANGED <<connAlive, exchange, bindings>>

ConBind(at, pattern, then) ==
    /\ SetupStep(at, connAlive, then)
    /\ bindings' = IF connAlive THEN bindings \cup {pattern} ELSE bindings
    /\ UNCHANGED <<connAlive, exchange, queueDeclared>>

ConBindActivity == ConBind("bind_activity", ACTIVITY_ROUTING_PATTERN, "bind_registry")
\* Mutant of ConBindRegistry: the second queue_bind is left out.
ConBindRegistrySkipped ==
    /\ SetupStep("bind_registry", connAlive, "basic_consume")
    /\ UNCHANGED <<connAlive, exchange, queueDeclared, bindings>>

ConBindRegistry ==
    ConBind("bind_registry", REGISTRY_ROUTING_PATTERN, "basic_consume")

ConBasicConsume ==
    /\ SetupStep("basic_consume", connAlive, "next")
    /\ UNCHANGED <<connAlive, exchange, queueDeclared, bindings>>

\* Mutant of ConNextDelivery: the broker counts the delivery as acknowledged the
\* moment it is handed over.
ConNextDeliveryAutoAck ==
    /\ conPc = "next"
    /\ connAlive
    /\ queue # <<>>
    /\ queue' = Tail(queue)
    /\ cur' = [NoDelivery EXCEPT !.tag = cur.tag + 1, !.msg = Head(queue)]
    /\ conPc' = "process"
    /\ UNCHANGED <<brokerUp, exchange, queueDeclared, bindings, published, connAlive,
                   unacked, streamErr, auditLog, limVars, gwVars, pubVars>>

\* consumer.next() yields Ok(delivery): the oldest ready message is handed over.
ConNextDelivery ==
    /\ conPc = "next"
    /\ connAlive
    /\ queue # <<>>
    /\ queue' = Tail(queue)
    /\ unacked' = Append(unacked, Head(queue))
    /\ cur' = [NoDelivery EXCEPT !.tag = cur.tag + 1, !.msg = Head(queue)]
    /\ conPc' = "process"
    /\ UNCHANGED <<brokerUp, exchange, queueDeclared, bindings, published, connAlive,
                   streamErr, auditLog, limVars, gwVars, pubVars>>

\* consumer.next() yields Err(e) after the connection broke: logged, the loop goes on.
ConNextError ==
    /\ conPc = "next"
    /\ ~connAlive
    /\ ~streamErr
    /\ streamErr' = TRUE
    /\ UNCHANGED <<brokerVars, conPc, connAlive, cur, auditLog, limVars, gwVars, pubVars>>

\* Where spawn_consumer's loop goes when start_consuming returns: Ok ends the task
\* (break), Err sleeps and starts over.
AfterStartConsuming(result) == IF result = "ok" THEN "stopped" ELSE "sleep"

\* consumer.next() yields None, the stream is over: the while loop ends and
\* start_consuming returns Ok(()).
ConNextEnd ==
    /\ conPc = "next"
    /\ ~connAlive
    /\ conPc' = AfterStartConsuming("ok")
    /\ UNCHANGED <<brokerVars, connAlive, streamErr, cur, auditLog, limVars, gwVars, pubVars>>

\* Mutant of ProcessEvent: an event type without a handler fails the delivery.
ProcessEventKnownOnly(m, dbOk) ==
    IF ~m.body.utf8 THEN [result |-> "err", reached |-> "utf8", logged |-> FALSE]
    ELSE IF ~(m.body.json /\ m.body.envelope)
    THEN [result |-> "err", reached |-> "generic", logged |-> FALSE]
    ELSE IF m.body.event_type \notin KnownTypes \/ ~m.body.payload_ok
    THEN [result |-> "err", reached |-> "typed", logged |-> FALSE]
    ELSE IF ~dbOk THEN [result |-> "err", reached |-> "insert", logged |-> FALSE]
    ELSE [result |-> "ok", reached |-> "done", logged |-> TRUE]

\* process_event on a delivery's routing key and bytes, with the insert into
\* event_logs succeeding or not: the result, how far it got, and the entry logged.
ProcessEvent(m, dbOk) ==
    IF ~m.body.utf8 THEN [result |-> "err", reached |-> "utf8", logged |-> FALSE]
    ELSE IF ~(m.body.json /\ m.body.envelope)
    THEN [result |-> "err", reached |-> "generic", logged |-> FALSE]
    ELSE IF m.body.event_type \in KnownTypes /\ ~m.body.payload_ok
    THEN [result |-> "err", reached |-> "typed", logged |-> FALSE]
    ELSE IF ~dbOk THEN [result |-> "err", reached |-> "insert", logged |-> FALSE]
    ELSE [result |-> "ok", reached |-> "done", logged |-> TRUE]

\* The entry process_event inserts for a message.
EventLog(m) ==
    [event_type |-> m.body.event_type, event_id |-> m.id, routing_key |-> m.key]

\* Mutant of AcksAfter: a delivery whose processing failed is left unacknowledged.
AcksAfterSuccessOnly(result) == result = "ok"

\* Whether the consume loop acknowledges after process_event returned result.
AcksAfter(result) ==
    CASE result = "ok" -> TRUE
      [] result = "err" -> TRUE

ConProcess(dbOk) ==
    /\ conPc = "process"
    /\ LET m == cur.msg
           r == ProcessEvent(m, dbOk) IN
       /\ auditLog' = IF r.logged THEN Append(auditLog, EventLog(m)) ELSE auditLog
       /\ cur' = [cur EXCEPT !.result = r.result, !.reached = r.reached,
                             !.audits = IF r.logged THEN @ + 1 ELSE @]
       /\ conPc' = IF AcksAfter(r.result) THEN "ack" ELSE "next"
    /\ UNCHANGED <<brokerVars, connAlive, streamErr, limVars, gwVars, pubVars>>

\* delivery.ack(): with the channel open the broker drops the message; otherwise
\* the error is logged.  Either way the loop goes on to the next delivery.
ConAck ==
    /\ conPc = "ack"
    /\ cur' = [cur EXCEPT !.acks = @ + 1]
    /\ unacked' = IF connAlive
                  THEN SelectSeq(unacked, LAMBDA x : x.id # cur.msg.id)
                  ELSE unacked
    /\ conPc' = "next"
    /\ UNCHANGED <<brokerUp, exchange, queueDeclared, bindings, queue, published,
                   connAlive, streamErr, auditLog, limVars, gwVars, pubVars>>

\* tokio::time::sleep(5 s), then the loop calls start_consuming again.
ConSleep ==
    /\ conPc = "sleep"
    /\ conPc' = "connect"
    /\ streamErr' = FALSE
    /\ UNCHANGED <<brokerVars, connAlive, cur, auditLog, limVars, gwVars, pubVars>>

\* An event of a type not in flight or logged yet is published by its producer.
InSeq(seq, type) == \E i \in 1..Len(seq) : seq[i].body.event_type = type
Audited(type) == \E i \in 1..Len(auditLog) : auditLog[i].event_type = type
Queued(type) == InSeq(queue, type) \/ InSeq(unacked, type)
PublishDistinct(m) ==
    /\ ~Queued(m.body.event_type)
    /\ ~Audited(m.body.event_type)
    /\ cur.msg.body.event_type # m.body.event_type
    /\ Publish(m)

\* The steps of the consumer task.
ConSetup ==
    \/ ConConnect
    \/ ConExchangeDeclare
    \/ ConQueueDeclare
    \/ ConBindActivity
    \/ ConBindRegistry
    \/ ConBasicConsume
ConStream ==
    \/ ConNextDelivery
    \/ ConNextError
    \/ ConNextEnd

\* The consumer with the producers' events only and a healthy event_logs store.
DeliveryNext ==
    \/ BrokerDown
    \/ BrokerBack
    \/ \E m \in ProducerSamples : PublishDistinct(m)
    \/ ConSetup
    \/ ConStream
    \/ ConProcess(TRUE)
    \/ ConAck
    \/ ConSleep

\* What the runtime and the broker guarantee: a runnable task step is taken, the
\* sleep ends, and an unreachable broker comes back.
DeliveryFairness ==
    /\ WF_vars(ConSetup)
    /\ WF_vars(ConStream)
    /\ WF_vars(ConProcess(TRUE))
    /\ WF_vars(ConAck)
    /\ WF_vars(ConSleep)
    /\ WF_vars(BrokerBack)

\* The analytics process dies, whatever its consumer task was doing: its connection
\* closes and the broker takes back the deliveries it had not acknowledged.
ConCrash ==
    /\ conPc # "down"
    /\ cur.tag < MaxDeliveries
    /\ conPc' = "down"
    /\ connAlive' = FALSE
    /\ streamErr' = FALSE
    /\ queue' = unacked \o queue
    /\ unacked' = <<>>
    /\ UNCHANGED <<brokerUp, exchange, queueDeclared, bindings, published, cur, auditLog,
                   limVars, gwVars, pubVars>>

\* The process is started again: spawn_consumer starts a new task in start_consuming.
ConStart ==
    /\ conPc = "down"
    /\ conPc' = "connect"
    /\ UNCHANGED <<brokerVars, connAlive, streamErr, cur, auditLog, limVars, gwVars, pubVars>>

\* The consumer in a process that may die and be restarted.
\* One event of each producing service.
RestartSamples ==
    {m \in ProducerSamples : m.body.event_type \in {"DailyMetricsRecorded", "RodentRegistered"}}

RestartNext ==
    \/ BrokerDown
    \/ BrokerBack
    \/ \E m \in RestartSamples : PublishDistinct(m)
    \/ ConSetup
    \/ ConStream
    \/ ConProcess(TRUE)
    \/ ConAck
    \/ ConSleep
    \/ ConCrash
    \/ ConStart

RestartFairness ==
    /\ DeliveryFairness
    /\ WF_vars(ConStart)

ConNext ==
    \/ BrokerDown
    \/ BrokerBack
    \/ \E m \in Samples : Publish(m)
    \/ ConConnect
    \/ ConExchangeDeclare
    \/ ConQueueDeclare
    \/ ConBindActivity
    \/ ConBindRegistry
    \/ ConBasicConsume
    \/ ConNextDelivery
    \/ ConNextError
    \/ ConNextEnd
    \/ \E dbOk \in BOOLEAN : ConProcess(dbOk)
    \/ ConAck
    \/ ConSleep

(***************************************************************************)
(* Event publisher (activity-tracking-service/src/messaging.rs and         *)
(* rodent-registry-service/src/messaging.rs, which differ in the events).  *)
(***************************************************************************)
\* A task not in a publish call.
IdleTask ==
    [pc |-> "idle", conn |-> "none", foundNone |-> FALSE, upAtCall |-> FALSE,
     connect |-> "none", result |-> "none"]

\* MessagePublisher::new has built Self with channel None and is about to connect().
PubInit ==
    /\ chan = "None"
    /\ readers = {}
    /\ tasks = [t \in Callers |->
                   IF t = "new"
                   THEN [IdleTask EXCEPT !.pc = "connect", !.upAtCall = brokerUp]
                   ELSE IdleTask]
    /\ lost = FALSE

\* The calls under way.
Active == {t \in PubTasks : tasks[t].pc \notin {"idle", "done"}}

\* A handler calls publish_*(event).
PubCall(t) ==
    /\ tasks["new"].pc = "done"
    /\ tasks[t].pc \in {"idle", "done"}
    /\ published + Cardinality(Active) < MaxEvents
    /\ tasks' = [tasks EXCEPT ![t] = [IdleTask EXCEPT !.pc = "ensure",
                                                     !.upAtCall = brokerUp]]
    /\ UNCHANGED <<chan, readers, lost, wr, auth, brokerVars, conVars, limVars, gwVars>>

\* The call returns Err.
Failed(t) == [tasks EXCEPT ![t].pc = "done", ![t].result = "err"]

\* Mutant of NewResult: new returns what connect() returned.
NewResultPropagated(connected) == connected

\* MessagePublisher::new: the result of connect() is only logged, new returns
\* Ok(publisher).
NewResult(connected) == "ok"

\* connect() returned Err to its caller: new goes on to return, ensure_connected's ?
\* makes publish_* return Err.
ConnectErr(t) ==
    IF t = "new"
    THEN [tasks EXCEPT ![t].pc = "done", ![t].connect = "err", ![t].result = NewResult("err")]
    ELSE [tasks EXCEPT ![t].pc = "done", ![t].connect = "err", ![t].result = "err"]

\* connect() returned Ok(()) to its caller: new returns, publish_* goes on to send.
ConnectOk(t) ==
    IF t = "new"
    THEN [tasks EXCEPT ![t].pc = "done", ![t].connect = "ok", ![t].result = NewResult("ok")]
    ELSE [tasks EXCEPT ![t].pc = "lock", ![t].connect = "ok"]

\* Mutant of NeedsConnect: the publisher connects at construction only.
NeedsConnectNever(c) == FALSE

\* ensure_connected: whether the channel read under the read lock calls for connect().
NeedsConnect(c) == c = "None"

\* Mutant of PubEnsure: the read guard is not dropped before connect() is called.
PubEnsureHolding(t) ==
    /\ tasks[t].pc = "ensure"
    /\ tasks' = [tasks EXCEPT ![t].pc = IF NeedsConnect(chan) THEN "connect" ELSE "lock",
                              ![t].foundNone = (chan = "None")]
    /\ readers' = IF NeedsConnect(chan) THEN readers \cup {t} ELSE readers
    /\ UNCHANGED <<chan, lost, wr, auth, brokerVars, conVars, limVars, gwVars>>

\* ensure_connected: takes the read lock, looks at the channel, drops the lock.
PubEnsure(t) ==
    /\ tasks[t].pc = "ensure"
    /\ tasks' = [tasks EXCEPT ![t].pc = IF NeedsConnect(chan) THEN "connect" ELSE "lock",
                              ![t].foundNone = (chan = "None")]
    /\ UNCHANGED <<chan, readers, lost, wr, auth, brokerVars, conVars, limVars, gwVars>>

\* connect: Connection::connect and create_channel.
PubConnect(t) ==
    /\ tasks[t].pc = "connect"
    /\ tasks' = IF brokerUp
                THEN [tasks EXCEPT ![t].pc = "declare", ![t].conn = "live"]
                ELSE ConnectErr(t)
    /\ UNCHANGED <<chan, readers, lost, wr, auth, brokerVars, conVars, limVars, gwVars>>

\* connect: exchange_declare on the new channel.
PubDeclare(t) ==
    /\ tasks[t].pc = "declare"
    /\ tasks' = IF tasks[t].conn = "live"
                THEN [tasks EXCEPT ![t].pc = "install"]
                ELSE ConnectErr(t)
    /\ exchange' = (exchange \/ tasks[t].conn = "live")
    /\ UNCHANGED <<chan, readers, lost, wr, auth, brokerUp, queueDeclared, bindings, queue, unacked,
                   published, conVars, limVars, gwVars>>

\* connect: takes the write lock, stores Some(channel), returns Ok.
PubInstall(t) ==
    /\ tasks[t].pc = "install"
    /\ readers = {}
    /\ chan' = IF tasks[t].conn = "live" THEN "Live" ELSE "Dead"
    /\ tasks' = ConnectOk(t)
    /\ UNCHANGED <<readers, lost, wr, auth, brokerVars, conVars, limVars, gwVars>>

\* publish_*: serializes the event, takes the read lock and looks at the channel.
PubLock(t) ==
    /\ tasks[t].pc = "lock"
    /\ IF chan = "None"
       THEN tasks' = Failed(t) /\ UNCHANGED readers
       ELSE tasks' = [tasks EXCEPT ![t].pc = "publish"] /\ readers' = readers \cup {t}
    /\ UNCHANGED <<chan, lost, wr, auth, brokerVars, conVars, limVars, gwVars>>

\* publish_*: basic_publish on the channel, then the read lock is dropped.
PubBasicPublish(t) ==
    /\ tasks[t].pc = "publish"
    /\ readers' = readers \ {t}
    /\ IF chan = "Live"
       THEN /\ tasks' = [tasks EXCEPT ![t].pc = "done", ![t].result = "ok"]
            /\ published' = published + 1
       ELSE /\ tasks' = Failed(t)
            /\ UNCHANGED published
    /\ UNCHANGED <<chan, lost, wr, auth, brokerUp, exchange, queueDeclared, bindings, queue,
                   unacked, conVars, limVars, gwVars>>

PubNext ==
    \/ BrokerDown
    \/ BrokerBack
    \/ \E t \in PubTasks : PubCall(t)
    \/ \E t \in PubTasks : PubEnsure(t)
    \/ \E t \in Callers : PubConnect(t)
    \/ \E t \in Callers : PubDeclare(t)
    \/ \E t \in Callers : PubInstall(t)
    \/ \E t \in PubTasks : PubLock(t)
    \/ \E t \in PubTasks : PubBasicPublish(t)

(***************************************************************************)
(* Write handlers of the producing services                                *)
(* (activity-tracking-service/src/handlers.rs,                             *)
(*  rodent-registry-service/src/handlers.rs).                              *)
(***************************************************************************)
\* The handlers whose write corresponds to a domain event.
WriteHandlers == {"create_daily_record", "create_feeding_record", "create_rodent",
                  "update_rodent_status", "create_medical_record"}

\* How many writes the handler makes, whether it looks the rodent up before writing,
\* whether it reads the document back after writing, and what it answers on success.
Writes(h) == IF h = "update_rodent_status" THEN 2 ELSE 1
LooksUp(h) == h \in {"update_rodent_status", "create_medical_record"}
ReadsBack(h) == h \in {"create_rodent", "update_rodent_status", "create_medical_record"}
SuccessStatus(h) == IF h \in {"create_rodent", "create_medical_record"} THEN 201 ELSE 200

\* What the request runs into before the write (token, role, payload.validate(),
\* ObjectId::parse_str, the rodent looked up), and the AppError status it gets.
Checks == {"ok", "invalid_token", "access_denied", "validation", "not_found"}
CheckStatus(c) ==
    CASE c = "invalid_token" -> 401
      [] c = "access_denied" -> 403
      [] c = "validation" -> 400
      [] c = "not_found" -> 404

\* The database operation that fails for the request, if any.
DbFailures == {"none", "write1", "write2", "read_back"}

\* The requests a handler can get.
WriteInputs ==
    {i \in [handler : WriteHandlers, check : Checks, fails : DbFailures] :
        /\ i.check = "not_found" => LooksUp(i.handler)
        /\ i.fails = "write2" => Writes(i.handler) = 2
        /\ i.fails = "read_back" => ReadsBack(i.handler)}

\* The publisher as a handler finds it in AppState.
PublisherStates == [brokerUp : BOOLEAN, chan : {"None", "Live", "Dead"}]

\* A run of a handler: where it stands, the writes committed, the publish_* calls
\* made, the status answered.
NoRun == [pc |-> "idle", stored |-> 0, publishes |-> 0, status |-> 0]
Answer(run, status) == [run EXCEPT !.pc = "done", !.status = status]

\* Mutant of HandlerStep: the handler publishes after the write and answers 500 when
\* the publish fails.
HandlerStepPublishing(run, i, publisher) ==
    CASE run.pc = "checks" ->
            IF i.check = "ok" THEN [run EXCEPT !.pc = "write"]
            ELSE Answer(run, CheckStatus(i.check))
      [] run.pc = "write" ->
            IF i.fails = (IF run.stored = 0 THEN "write1" ELSE "write2")
            THEN Answer(run, 500)
            ELSE [run EXCEPT !.stored = @ + 1,
                             !.pc = IF run.stored + 1 < Writes(i.handler) THEN "write"
                                    ELSE "respond"]
      [] run.pc = "respond" ->
            IF publisher.brokerUp /\ publisher.chan = "Live"
            THEN Answer([run EXCEPT !.publishes = 1], SuccessStatus(i.handler))
            ELSE Answer([run EXCEPT !.publishes = 1], 500)
      [] OTHER -> run

\* One step of a handler on request i, with the publisher of AppState at hand: the
\* checks, each insert_one / update_one, then the read back and the answer.  No
\* step calls the publisher.
HandlerStep(run, i, publisher) ==
    CASE run.pc = "checks" ->
            IF i.check = "ok" THEN [run EXCEPT !.pc = "write"]
            ELSE Answer(run, CheckStatus(i.check))
      [] run.pc = "write" ->
            IF i.fails = (IF run.stored = 0 THEN "write1" ELSE "write2")
            THEN Answer(run, 500)
            ELSE [run EXCEPT !.stored = @ + 1,
                             !.pc = IF run.stored + 1 < Writes(i.handler) THEN "write"
                                    ELSE "respond"]
      [] run.pc = "respond" ->
            IF i.fails = "read_back" THEN Answer(run, 500)
            ELSE Answer(run, SuccessStatus(i.handler))
      [] OTHER -> run

\* No request yet.
NoWrite ==
    [input |-> [handler |-> "none", check |-> "ok", fails |-> "none"],
     a |-> NoRun, b |-> NoRun, differed |-> FALSE]

WrInit == wr = NoWrite

\* A write request reaches its handler.  The same request on the same database is
\* followed in a second world, b, that differs in the broker and the publisher only.
WrArrive(i) ==
    /\ wr.a.pc \in {"idle", "done"}
    /\ wr.b.pc \in {"idle", "done"}
    /\ wr' = [input |-> i, a |-> [NoRun EXCEPT !.pc = "checks"],
              b |-> [NoRun EXCEPT !.pc = "checks"], differed |-> FALSE]
    /\ UNCHANGED <<chan, readers, tasks, lost, auth, brokerVars, conVars, limVars, gwVars>>

\* The handler takes its next step in both worlds.
WrStep ==
    /\ wr.a.pc \notin {"idle", "done"} \/ wr.b.pc \notin {"idle", "done"}
    /\ \E other \in PublisherStates :
          LET here == [brokerUp |-> brokerUp, chan |-> chan] IN
          wr' = [wr EXCEPT !.a = HandlerStep(@, wr.input, here),
                           !.b = HandlerStep(@, wr.input, other),
                           !.differed = @ \/ other.brokerUp # here.brokerUp]
    /\ UNCHANGED <<chan, readers, tasks, lost, auth, brokerVars, conVars, limVars, gwVars>>

\* The publisher of the service is built (MessagePublisher::new, whose connect()
\* may succeed or not) while requests are served.
ProducerNext ==
    \/ BrokerDown
    \/ BrokerBack
    \/ \E t \in {"new"} : PubConnect(t)
    \/ \E t \in {"new"} : PubDeclare(t)
    \/ \E t \in {"new"} : PubInstall(t)
    \/ \E i \in WriteInputs : WrArrive(i)
    \/ WrStep

\* The producing service keeps handling requests that publish, its tasks keep
\* running, and the broker that is down comes back.
PubFairness ==
    /\ WF_vars(BrokerBack)
    /\ \A t \in PubTasks : WF_vars(PubCall(t))
    /\ \A t \in PubTasks : WF_vars(PubEnsure(t))
    /\ \A t \in Callers : WF_vars(PubConnect(t))
    /\ \A t \in Callers : WF_vars(PubDeclare(t))
    /\ \A t \in Callers : WF_vars(PubInstall(t))
    /\ \A t \in PubTasks : WF_vars(PubLock(t))
    /\ \A t \in PubTasks : WF_vars(PubBasicPublish(t))

(***************************************************************************)
(* User service: refresh tokens (user-service/src/handlers.rs, db.rs).     *)
(***************************************************************************)
Users == {"u1", "u2"}

\* The tasks serving POST /api/auth/refresh.
RefTasks == {"r1", "r2"}

IdleRefresh == [pc |-> "idle", token |-> 0, stored |-> 0, result |-> "none"]
IdleLogout == [pc |-> "idle", user |-> "none", result |-> "none"]

\* The database as migrated, no session yet: refresh_tokens is empty, the users are
\* active.  refreshed and revokedAtLogout are history: how many refresh calls each
\* row's token has served with success, and the rows a logout has revoked.
AuthInit ==
    auth = [rows |-> <<>>,
            active |-> Users,
            calls |-> [t \in RefTasks |-> IdleRefresh],
            logout |-> IdleLogout,
            refreshed |-> <<>>,
            revokedAtLogout |-> {},
            afterLogout |-> FALSE]

\* Everything but the user service.
notAuth == <<limVars, gwVars, brokerVars, conVars, chan, readers, tasks, lost, wr>>

\* The refresh calls that may still insert a row.
Inserting == {t \in RefTasks : auth.calls[t].pc \in {"select", "user", "revoke", "insert"}}

\* INSERT INTO refresh_tokens (user_id, token, expires_at): a new row, not revoked,
\* its token a fresh Uuid::new_v4.
InsertToken(rows, u) == Append(rows, [user_id |-> u, revoked |-> FALSE, expired |-> FALSE])

\* login: an active user with the right password gets a new refresh token stored.
Login(u) ==
    /\ u \in auth.active
    /\ Len(auth.rows) + Cardinality(Inserting) < MaxTokens
    /\ auth' = [auth EXCEPT !.rows = InsertToken(@, u), !.refreshed = Append(@, 0)]
    /\ UNCHANGED notAuth

\* expires_at of a row that is still in use passes.
TokenExpires(k) ==
    /\ k \in 1..Len(auth.rows)
    /\ ~auth.rows[k].expired
    /\ ~auth.rows[k].revoked
    /\ auth' = [auth EXCEPT !.rows[k].expired = TRUE]
    /\ UNCHANGED notAuth

\* An admin sets a user's status to inactive.
UserDeactivated(u) ==
    /\ u \in auth.active
    /\ auth' = [auth EXCEPT !.active = @ \ {u}]
    /\ UNCHANGED notAuth

\* A client posts a refresh token: one of the stored ones, or (0) a string that is
\* not in the table.
RefCall(t, k) ==
    /\ auth.calls[t].pc \in {"idle", "done"}
    /\ k \in 0..Len(auth.rows)
    /\ Len(auth.rows) + Cardinality(Inserting) < MaxTokens
    /\ auth' = [auth EXCEPT !.calls[t] = [IdleRefresh EXCEPT !.pc = "select", !.token = k]]
    /\ UNCHANGED notAuth

\* The call ends with an error.
RefErr(t, e) == [auth EXCEPT !.calls[t] = [IdleRefresh EXCEPT !.pc = "done", !.result = e]]

\* SELECT * FROM refresh_tokens WHERE token = $1 AND revoked = FALSE AND
\* expires_at > NOW(): whether row k is found.
FindValid(rows, k) == k \in 1..Len(rows) /\ ~rows[k].revoked /\ ~rows[k].expired

\* refresh_token: the SELECT of the stored token, then ok_or(InvalidToken).
RefSelect(t, dbOk) ==
    /\ auth.calls[t].pc = "select"
    /\ auth' = IF ~dbOk THEN RefErr(t, "DatabaseError")
               ELSE IF FindValid(auth.rows, auth.calls[t].token)
               THEN [auth EXCEPT !.calls[t].pc = "user",
                                 !.calls[t].stored = auth.calls[t].token]
               ELSE RefErr(t, "InvalidToken")
    /\ UNCHANGED notAuth

\* refresh_token: SELECT of the active user, then ok_or(UserNotFound).
RefUser(t, dbOk) ==
    /\ auth.calls[t].pc = "user"
    /\ auth' = IF ~dbOk THEN RefErr(t, "DatabaseError")
               ELSE IF auth.rows[auth.calls[t].stored].user_id \in auth.active
               THEN [auth EXCEPT !.calls[t].pc = "revoke"]
               ELSE RefErr(t, "UserNotFound")
    /\ UNCHANGED notAuth

\* refresh_token: UPDATE refresh_tokens SET revoked = TRUE WHERE id = $1.
RefRevoke(t, dbOk) ==
    /\ auth.calls[t].pc = "revoke"
    /\ auth' = IF ~dbOk THEN RefErr(t, "DatabaseError")
               ELSE [auth EXCEPT !.rows[auth.calls[t].stored].revoked = TRUE,
                                 !.calls[t].pc = "insert"]
    /\ UNCHANGED notAuth

\* refresh_token: generate_tokens, INSERT of the new refresh token, Ok(AuthResponse).
RefInsert(t, dbOk) ==
    /\ auth.calls[t].pc = "insert"
    /\ LET k == auth.calls[t].stored IN
       auth' = IF ~dbOk THEN RefErr(t, "DatabaseError")
               ELSE [auth EXCEPT !.rows = InsertToken(@, auth.rows[k].user_id),
                                 !.refreshed = Append([@ EXCEPT ![k] = @ + 1], 0),
                                 !.afterLogout = @ \/ k \in auth.revokedAtLogout,
                                 !.calls[t] = [IdleRefresh EXCEPT !.pc = "done",
                                                                  !.result = "ok"]]
    /\ UNCHANGED notAuth

\* The rows of a user.
RowsOf(rows, u) == {k \in 1..Len(rows) : rows[k].user_id = u}

\* A user with a valid access token posts to /api/auth/logout.
LogoutCall(u) ==
    /\ auth.logout.pc \in {"idle", "done"}
    /\ auth' = [auth EXCEPT !.logout = [IdleLogout EXCEPT !.pc = "revoke_all", !.user = u]]
    /\ UNCHANGED notAuth

\* logout: UPDATE refresh_tokens SET revoked = TRUE WHERE user_id = $1.
LogoutRevoke(dbOk) ==
    /\ auth.logout.pc = "revoke_all"
    /\ LET mine == RowsOf(auth.rows, auth.logout.user) IN
       auth' = IF ~dbOk
               THEN [auth EXCEPT !.logout = [IdleLogout EXCEPT !.pc = "done",
                                                               !.result = "DatabaseError"]]
               ELSE [auth EXCEPT !.rows = [k \in 1..Len(@) |->
                                             IF k \in mine THEN [@[k] EXCEPT !.revoked = TRUE]
                                             ELSE @[k]],
                                 !.revokedAtLogout = @ \cup mine,
                                 !.logout.pc = "log"]
    /\ UNCHANGED notAuth

\* logout: INSERT INTO activity_logs, then Ok.
LogoutLog(dbOk) ==
    /\ auth.logout.pc = "log"
    /\ auth' = [auth EXCEPT !.logout =
                    [IdleLogout EXCEPT !.pc = "done",
                                       !.result = IF dbOk THEN "ok" ELSE "DatabaseError"]]
    /\ UNCHANGED notAuth

AuthNext ==
    \/ \E u \in Users : Login(u)
    \/ \E k \in 1..MaxTokens : TokenExpires(k)
    \/ \E u \in Users : UserDeactivated(u)
    \/ \E t \in RefTasks, k \in 0..MaxTokens : RefCall(t, k)
    \/ \E t \in RefTasks, dbOk \in BOOLEAN : RefSelect(t, dbOk)
    \/ \E t \in RefTasks, dbOk \in BOOLEAN : RefUser(t, dbOk)
    \/ \E t \in RefTasks, dbOk \in BOOLEAN : RefRevoke(t, dbOk)
    \/ \E t \in RefTasks, dbOk \in BOOLEAN : RefInsert(t, dbOk)
    \/ \E u \in Users : LogoutCall(u)
    \/ \E dbOk \in BOOLEAN : LogoutRevoke(dbOk)
    \/ \E dbOk \in BOOLEAN : LogoutLog(dbOk)

\* SPECS
Init == LimInit /\ GwInit /\ BrokerInit /\ ConInit /\ PubInit /\ WrInit /\ AuthInit

\* The rate limiter called directly.
SpecLimiter == Init /\ [][LimNext]_vars

\* The gateway serving requests.
SpecGateway == Init /\ [][GwNext]_vars

\* The analytics consumer against the broker.
SpecConsumer == Init /\ [][ConNext]_vars

\* A producing service's publisher against the broker.
SpecPublisher == Init /\ [][PubNext]_vars

\* The rate limiter called from several threads.
SpecLimiterConcurrent == Init /\ [][ConcurrentNext]_vars

\* proxy_request on every kind of request and upstream behaviour.
SpecProxy == Init /\ [][ProxyNext]_vars

\* A producing service handling write requests.
SpecProducer == Init /\ [][ProducerNext]_vars

\* The publisher with its calls scheduled fairly.
SpecPublisherFair == Init /\ [][PubNext]_vars /\ PubFairness

\* The analytics consumer receiving the producers' events, scheduled fairly.
SpecDelivery == Init /\ [][DeliveryNext]_vars /\ DeliveryFairness

\* The analytics consumer in a process that may die and be restarted.
SpecRestart == Init /\ [][RestartNext]_vars /\ RestartFairness

\* tokio's RwLock queues its waiters first in, first out: readers arriving after a
\* waiting writer queue behind it, so a writer whose lock keeps becoming free gets it.
PubLockFairness ==
    /\ PubFairness
    /\ \A t \in Callers : SF_vars(PubInstall(t))

\* The publisher with its calls scheduled fairly and the channel lock granted fairly.
SpecPublisherLocks == Init /\ [][PubNext]_vars /\ PubLockFairness

\* The user service serving login, refresh and logout.
SpecAuth == Init /\ [][AuthNext]_vars

(***************************************************************************)
(* Properties                                                              *)
(***************************************************************************)
\* The request in flight has made the named outbound call.
Called(c) == \E i \in 1..Len(req.calls) : req.calls[i] = c
\* The request in flight made call a before call b.
CalledBefore(a, b) ==
    \E i, j \in 1..Len(req.calls) : i < j /\ req.calls[i] = a /\ req.calls[j] = b
\* The identity service answered the request in flight valid = true / false.
AnsweredValid == req.answer.kind = "json" /\ req.answer.valid
AnsweredInvalid == req.answer.kind = "json" /\ ~req.answer.valid

\* C1: a check_rate_limit call for a key is allowed if and only if fewer than
\* max_requests of the key's earlier allowed checks have instants inside the
\* trailing window (now - instant < window).
C1_AllowedIffBelowMax ==
    lastCall.op = "check" => (lastCall.allowed <=> lastCall.prior < max_requests)

\* C1 witness: a key got more than max_requests checks allowed (so a window has
\* elapsed since the first) and the last check of that key was denied at the quota.
C1_DeniedAfterWindowReopened ==
    /\ lastCall.op = "check"
    /\ ~lastCall.allowed
    /\ lastCall.prior = max_requests
    /\ Len(allowedLog[lastCall.key]) > max_requests

\* C2: calls on one key never change what the limiter holds or answers for
\* another: each key's timestamp list and every result equal those of a limiter
\* that only ever saw the calls on that key.
C2_KeysIndependent ==
    /\ \A k \in Keys :
          /\ k \in DOMAIN requests <=> k \in DOMAIN solo[k]
          /\ k \in DOMAIN requests => requests[k] = solo[k][k]
    /\ lastCall.op = "check" => lastCall.allowed = lastCall.soloAllowed
    /\ lastCall.op = "remaining" => lastCall.remaining = lastCall.soloRemaining

\* C2 witness: one key is at its quota and the last call, a check of another
\* key, was allowed.
C2_OtherKeyAllowedWhileOneExhausted ==
    \E a \in DOMAIN requests :
        /\ InWindow(allowedLog[a], now) = max_requests
        /\ lastCall.op = "check"
        /\ lastCall.key # a
        /\ lastCall.allowed

\* C3 (the claim as stated): an answer valid = true that lacks user_id, username
\* or role ends the request with 401, with no upstream call.
C3_MissingIdentityRejected ==
    (AnsweredValid /\ ~(req.answer.user_id /\ req.answer.username /\ req.answer.role))
        => (~Called("upstream") /\ (req.pc = "responded" => req.status = 401))

\* C4: on a protected route a request is forwarded upstream only after its own
\* validation call answered valid = true, and an answer valid = false ends the
\* request with 401 and no upstream call.
C4_ForwardedOnlyIfValid ==
    /\ (Protected(req.route) /\ Called("upstream"))
          => (AnsweredValid /\ CalledBefore("validate", "upstream"))
    /\ AnsweredInvalid
          => (req.pc = "responded" /\ req.status = 401 /\ ~Called("upstream"))

\* C4 witness: a request on a protected route was validated and forwarded, and
\* carries the upstream's status.
C4_ValidatedAndForwarded ==
    /\ req.pc = "responded"
    /\ Protected(req.route)
    /\ AnsweredValid
    /\ Called("upstream")
    /\ req.status = 200

\* C5: the rate limiter is the first thing a request meets; a request it denies
\* is answered 429 having made no validation and no upstream call; on a protected
\* route the validation call precedes the upstream call.
C5_RateLimitFirst ==
    /\ req.pc \notin {"idle", "rate_limit"}
          => (req.calls # <<>> /\ req.calls[1] = "rate_check")
    /\ (req.pc \notin {"idle", "rate_limit"} /\ ~req.allowed)
          => (req.pc = "responded" /\ req.status = 429 /\ req.calls = <<"rate_check">>)
    /\ (Protected(req.route) /\ Called("upstream"))
          => CalledBefore("validate", "upstream")

\* C5 witness: a request with a bearer token on a protected route was denied by
\* the rate limiter and answered 429.
C5_DeniedRequestAnswered429 ==
    /\ req.pc = "responded"
    /\ Protected(req.route)
    /\ req.header = "bearer"
    /\ ~req.allowed
    /\ req.status = 429

\* C6: whatever process_event returned, the consume loop acknowledges the delivery
\* next, exactly once, and then is back at consumer.next() for the following one.
C6_AckedExactlyOnce ==
    [][/\ (conPc = "process" /\ conPc' # "process") => conPc' = "ack"
       /\ (conPc = "ack" /\ conPc' # "ack")
             => (conPc' = "next" /\ cur.acks = 0 /\ cur' = [cur EXCEPT !.acks = 1])
       /\ (conPc # "ack" /\ cur'.tag = cur.tag) => cur'.acks = cur.acks
       /\ (conPc # "process" /\ conPc' = "process") => cur'.acks = 0]_vars

\* C6 witness: a later delivery whose processing failed has been acknowledged once
\* and the consumer is waiting for the next one.
C6_FailedDeliveryAcked ==
    /\ conPc = "next"
    /\ cur.tag >= 2
    /\ cur.result = "err"
    /\ cur.acks = 1

\* C7 (the claim as stated, for deliveries whose envelope parsed and whose insert
\* was not refused): once processed, a delivery has exactly one audit log entry,
\* whether or not its type-specific parse succeeded.
C7_OneAuditEntryPerDelivery ==
    (cur.tag # 0 /\ conPc # "process" /\ cur.reached \in {"typed", "done"})
        => cur.audits = 1

\* C8 (the claim as stated): the spawned consumer task is never terminated.
C8_ConsumerNeverTerminates == conPc # "stopped"

\* C9 (the claim as stated): once the broker stays available, every producer event
\* in the consumer's queue is eventually in the audit log.
C9_EveryEventAudited ==
    <>[]brokerUp =>
        \A m \in ProducerSamples :
            Queued(m.body.event_type) ~> Audited(m.body.event_type)

\* C10: when the broker was unreachable at MessagePublisher::new and has been
\* available ever since it first became so, a publish call made after availability
\* that found the publisher without a channel has connected, declared the exchange,
\* sent the event and returned Ok.
C10_LazyReconnectSucceeds ==
    \A t \in PubTasks :
        (tasks[t].pc = "done" /\ tasks[t].foundNone /\ tasks[t].upAtCall /\ ~lost)
            => (tasks[t].result = "ok" /\ chan = "Live" /\ exchange /\ published > 0)

\* C10 witness: the publisher was built without a channel, the broker became
\* available, and a call that found no channel returned Ok.
C10_PublishedAfterLateAvailability ==
    \E t \in PubTasks :
        /\ tasks[t].pc = "done"
        /\ tasks[t].foundNone
        /\ tasks[t].upAtCall
        /\ ~lost
        /\ tasks[t].result = "ok"

\* C11: MessagePublisher::new returns Ok(publisher) whatever connect() returned, and
\* when connect() failed the publisher it returns (before any publish call) holds no
\* channel.
C11_NewNeverFails ==
    tasks["new"].pc = "done"
        => /\ tasks["new"].result = "ok"
           /\ (tasks["new"].connect = "err" /\ \A t \in PubTasks : tasks[t].pc = "idle")
                  => chan = "None"

\* C11 witness: new has returned Ok after a failed connect() and left no channel.
C11_BuiltDisconnected ==
    /\ tasks["new"].pc = "done"
    /\ tasks["new"].connect = "err"
    /\ tasks["new"].result = "ok"
    /\ chan = "None"

\* C12: once the broker is available for good, a publisher left with the channel of
\* a lost connection gets a live channel again through some later publish call.
C12_OutageRecovered == <>[]brokerUp => ((chan = "Dead") ~> (chan = "Live"))

\* C13: a handler that committed its write and answered with success has asked the
\* publisher to emit the event.
C13_WriteFollowedByPublish ==
    (wr.a.pc = "done" /\ wr.a.stored > 0 /\ wr.a.status = SuccessStatus(wr.input.handler))
        => wr.a.publishes > 0

\* C14: the same write request on the same database ends with the same status and
\* the same writes committed whatever the broker and the publisher are like.
C14_WriteIndependentOfBroker ==
    (wr.a.pc = "done" \/ wr.b.pc = "done")
        => /\ wr.a.pc = wr.b.pc
           /\ wr.a.status = wr.b.status
           /\ wr.a.stored = wr.b.stored

\* C14 witness: a write was committed and answered with success in two worlds of
\* which one had the broker down.
C14_SameWriteWithBrokerDown ==
    /\ wr.a.pc = "done"
    /\ wr.b.pc = "done"
    /\ wr.differed
    /\ wr.a.stored > 0
    /\ wr.a.status = SuccessStatus(wr.input.handler)

\* C15: a validation call that failed in transport (send() or the reading of the
\* response failed) is answered 503; and auth_middleware answers 401 only for a
\* missing or malformed header or an answer valid = false.
C15_TransportFailureIs503 ==
    req.pc = "responded"
        => /\ req.validation \in {"send_error", "text_error"} => req.status = 503
           /\ (req.status = 401 /\ Protected(req.route))
                 => (~HasBearerToken(req.header) \/ AnsweredInvalid)

\* C16: a request on a protected route whose Authorization header is missing or is
\* not a Bearer header makes no validation call and no upstream call, and once past
\* the rate limiter it is answered 401.
C16_NoBearerRejectedAtOnce ==
    (Protected(req.route) /\ req.header # "bearer")
        => /\ ~Called("validate")
           /\ ~Called("upstream")
           /\ (req.pc = "responded" /\ req.allowed) => req.status = 401
           /\ req.pc # "handler"

\* C16 witness: a request with a malformed header on a protected route was let
\* through by the rate limiter and answered 401.
C16_MalformedHeaderAnswered401 ==
    /\ req.pc = "responded"
    /\ Protected(req.route)
    /\ req.header = "not_bearer"
    /\ req.allowed
    /\ req.status = 401
    /\ req.calls = <<"rate_check">>

\* C17: a request with a Bearer header on a protected route that got past the rate
\* limiter has made exactly one validation call, and it is forwarded if and only
\* if that call answered valid = true, whatever happened to earlier requests.
C17_ValidatedEveryTime ==
    (req.pc = "responded" /\ Protected(req.route) /\ req.header = "bearer" /\ req.allowed)
        => /\ Cardinality({i \in 1..Len(req.calls) : req.calls[i] = "validate"}) = 1
           /\ Called("upstream") <=> AnsweredValid

\* C17 witness: the token was accepted for an earlier request and the present
\* request, answered valid = false by its own call, is rejected.
C17_RejectedAfterEarlierAccept ==
    /\ req.pc = "responded"
    /\ req.earlier = "accepted"
    /\ Protected(req.route)
    /\ req.header = "bearer"
    /\ AnsweredInvalid
    /\ req.status = 401
    /\ ~Called("upstream")

\* C18: a proxy_request call whose send failed answers 503, one whose reading of
\* the upstream body failed answers 502, and one that got the upstream's response
\* answers with the upstream's status; a call that reached the upstream is answered
\* in the step in which the upstream call ends.
C18_UpstreamFailureMapped ==
    /\ px.up.kind = "send_error" => (px.pc = "done" /\ px.status = 503)
    /\ px.up.kind = "bytes_error" => (px.pc = "done" /\ px.status = 502)
    /\ (px.up.kind = "response" /\ px.pc = "done") => px.status = px.up.status

\* C18 witness: the send to the upstream failed and the call answered 503.
C18_SendFailureAnswered503 ==
    /\ px.pc = "done"
    /\ px.up.kind = "send_error"
    /\ px.status = 503

\* C19: for POST, PUT and PATCH the body sent upstream is the inbound body, the
\* body of the gateway's response is the upstream's body, and so with an echoing
\* upstream the client gets its own body back.
C19_BodyRoundTrip ==
    (px.method \in BodyMethods /\ px.up.kind = "response")
        => /\ px.sent = px.body
           /\ px.pc = "done"
                 => /\ px.respBody = px.up.body
                    /\ px.up.echo => px.respBody = px.body

\* C19 witness: a PUT of {"x":1} to an echoing upstream came back unchanged.
C19_PutEchoed ==
    /\ px.pc = "done"
    /\ px.method = "PUT"
    /\ px.body = <<123, 34, 120, 34, 58, 49, 125>>
    /\ px.up.kind = "response"
    /\ px.up.echo
    /\ px.respBody = px.body

\* C20: under concurrent check_rate_limit calls, for every key and every window
\* (w - window, w] the calls allowed with an instant inside it number at most
\* max_requests.
C20_LimitHoldsUnderConcurrency ==
    \A key \in Keys : \A w \in 0..MaxTime :
        Cardinality({i \in 1..Len(allowedLog[key]) :
                        allowedLog[key][i] <= w /\ w - allowedLog[key][i] < window})
            <= max_requests

\* C21: a proxy_request call whose outbound call ran into the client's timeout,
\* while sending or while reading the response body, answers 503.
C21_TimeoutIs503 ==
    (px.up.kind \in {"send_error", "bytes_error"} /\ px.up.cause = "timeout")
        => (px.pc = "done" /\ px.status = 503)

\* C22: a check_rate_limit call that returns false leaves the key's list equal to
\* its unexpired entries of before, adds nothing, and leaves the other keys alone.
C22_DeniedAppendsNothing ==
    [][\A key \in Keys :
          (CallCheck(key) /\ ~lastCall'.allowed)
              => /\ key \in DOMAIN requests
                 /\ requests' = [requests EXCEPT ![key] = Retain(requests[key], now)]
      ]_vars

\* C22 witness: a call was denied after the window had moved on, with the list
\* holding max_requests entries, none of them of the present instant.
C22_DeniedWithFullList ==
    /\ lastCall.op = "check"
    /\ ~lastCall.allowed
    /\ Len(requests[lastCall.key]) = max_requests
    /\ \A i \in 1..Len(requests[lastCall.key]) : requests[lastCall.key][i] < now

\* C23: get_remaining returns max_requests minus the number of the key's unexpired
\* entries (max_requests for a key never seen, never less than 0), adds no entry to
\* a list and no key to the map, and every later check_rate_limit or get_remaining
\* gives what it would have given without it.
C23_RemainingReadsOnly ==
    [][\A key \in Keys :
          CallRemaining(key)
              => /\ lastCall'.remaining =
                        (IF key \in DOMAIN requests
                         THEN SaturatingSub(max_requests, InWindow(requests[key], now))
                         ELSE max_requests)
                 /\ lastCall'.remaining \in 0..max_requests
                 /\ DOMAIN requests' = DOMAIN requests
                 /\ \A k \in DOMAIN requests :
                        requests'[k] = IF k = key THEN Retain(requests[k], now) ELSE requests[k]
                 /\ \A k \in Keys : \A t \in now..MaxTime :
                        /\ CheckRateLimit(requests', k, t).allowed
                              = CheckRateLimit(requests, k, t).allowed
                        /\ CheckRateLimit(requests', k, t).map[k]
                              = CheckRateLimit(requests, k, t).map[k]
                        /\ GetRemaining(requests', k, t).remaining
                              = GetRemaining(requests, k, t).remaining
      ]_vars

\* C23 witness: get_remaining returned 0 for a key whose window is full, and
\* max_requests is what an unseen key would get.
C23_NothingRemaining ==
    /\ lastCall.op = "remaining"
    /\ lastCall.remaining = 0
    /\ Len(requests[lastCall.key]) = max_requests
    /\ \E k \in Keys : k \notin DOMAIN requests

\* A processed delivery whose envelope parsed and whose event_type has no handler.
UnknownTypeProcessed ==
    /\ cur.tag # 0
    /\ cur.result # "none"
    /\ cur.msg.body.utf8 /\ cur.msg.body.json /\ cur.msg.body.envelope
    /\ cur.msg.body.event_type \notin KnownTypes

BothPatterns == {ACTIVITY_ROUTING_PATTERN, REGISTRY_ROUTING_PATTERN}

\* The broker holds the exchange, the queue and both bindings.
SetUp == exchange /\ queueDeclared /\ bindings = BothPatterns

\* C25, order: in every run of start_consuming each setup call is reached only from
\* the one before it having succeeded and left its effect on the broker, the stream
\* is opened only after the last of them, and a delivery is pulled only from an
\* open stream with the exchange, the queue and both bindings in place.
C25_SetupInOrder ==
    [][/\ (conPc # conPc' /\ conPc' = "exchange_declare")
              => (conPc = "connect" /\ connAlive')
       /\ (conPc # conPc' /\ conPc' = "queue_declare")
              => (conPc = "exchange_declare" /\ exchange')
       /\ (conPc # conPc' /\ conPc' = "bind_activity")
              => (conPc = "queue_declare" /\ exchange' /\ queueDeclared')
       /\ (conPc # conPc' /\ conPc' = "bind_registry")
              => (conPc = "bind_activity" /\ ACTIVITY_ROUTING_PATTERN \in bindings')
       /\ (conPc # conPc' /\ conPc' = "basic_consume")
              => (conPc = "bind_registry" /\ SetUp')
       /\ (conPc # conPc' /\ conPc' = "next")
              => (conPc \in {"basic_consume", "ack"} /\ SetUp')
       /\ (conPc # conPc' /\ conPc' = "process")
              => (conPc = "next" /\ SetUp /\ cur'.msg = Head(queue))
      ]_vars

\* C25, idempotence: once the exchange, the queue and both bindings are in place,
\* no later run of the setup changes them, and nothing else is ever bound.
C25_SetupIdempotent ==
    [][/\ SetUp => SetUp'
       /\ bindings' \subseteq BothPatterns]_vars

\* C25, resumption: from a (re)connect after which the broker stays available and
\* the process alive, every event the queue holds is eventually consumed and logged.
C25_QueuedConsumedAfterRestart ==
    \A m \in RestartSamples :
        []((conPc = "connect" /\ Queued(m.body.event_type)
              /\ [](brokerUp /\ conPc # "down"))
            => <>Audited(m.body.event_type))

\* C25: the three parts together.
C25_SetupOrderedIdempotentResuming ==
    /\ C25_SetupInOrder
    /\ C25_SetupIdempotent
    /\ C25_QueuedConsumedAfterRestart

\* C25 witness: the first delivery was pulled and never processed, so the process
\* died holding it; the event lay in the durable queue while the consumer was down,
\* the restarted consumer ran the setup again, leaving the broker set up as before,
\* and pulled the event once more.
C25_ResumedAfterRestart ==
    /\ conPc = "process"
    /\ cur.tag = 2
    /\ cur.msg.id = 1
    /\ auditLog = <<>>
    /\ SetUp

\* The publish calls that have opened a connection inside connect() and have not
\* returned from it yet.
Reconnecting == {t \in PubTasks : tasks[t].pc \in {"declare", "install"}}

\* C26 (the claim as stated): of the publish calls running on a disconnected
\* publisher, at most one at a time is inside a reconnect with a connection opened.
C26_SingleReconnectInFlight == Cardinality(Reconnecting) <= 1

\* C27, lock discipline: a caller about to take the channel's write lock in connect()
\* holds no read lock, and only calls inside basic_publish hold one.
C27_NoUpgradeWhileReading ==
    /\ \A t \in Callers : tasks[t].pc \in {"connect", "declare", "install"} => t \notin readers
    /\ \A t \in readers : tasks[t].pc = "publish"

\* C27, termination: every publish call under way eventually returns Ok or Err.
C27_EveryCallReturns ==
    \A t \in PubTasks :
        (tasks[t].pc \notin {"idle", "done"})
            ~> (tasks[t].pc = "done" /\ tasks[t].result \in {"ok", "err"})

\* C27: the two parts together.
C27_LockDisciplineDeadlockFree ==
    /\ []C27_NoUpgradeWhileReading
    /\ C27_EveryCallReturns

\* C27 witness: one call waits for the write lock at the end of its reconnect while
\* the other holds the read lock inside basic_publish.
C27_WriterWaitsForReader ==
    \E t, u \in PubTasks :
        /\ tasks[t].pc = "install"
        /\ tasks[u].pc = "publish"
        /\ u \in readers

\* C28 (the claim as stated): a request on a proxied route other than the public
\* /auth/register, /auth/login and /auth/refresh reaches its upstream only after a
\* validation call that the identity service answered valid = true.
C28_ProxiedRoutesGuarded ==
    (Called("upstream") /\ req.route # "public_auth")
        => (CalledBefore("validate", "upstream") /\ AnsweredValid)

\* The messages the broker holds for the consumer, ready or delivered and unacked.
Held == queue \o unacked
HeldAfter == queue' \o unacked'

\* C29, ack after processing: the consumer acknowledges a delivery only once
\* process_event has returned for it, and the broker lets go of a message only on
\* such an acknowledgement; when the process dies with a delivery not yet
\* acknowledged, the message is back in the queue.
C29_AckOnlyAfterProcessing ==
    [][/\ (cur'.tag = cur.tag /\ cur'.acks > cur.acks)
              => (cur.result # "none" /\ cur.acks = 0)
       /\ \A i \in 1..Len(Held) :
              \/ \E j \in 1..Len(HeldAfter) : HeldAfter[j] = Held[i]
              \/ /\ conPc = "ack"
                 /\ cur.msg = Held[i]
                 /\ cur.result # "none"
       /\ (conPc \in {"process", "ack"} /\ conPc' = "down" /\ brokerUp
             /\ \E i \in 1..Len(unacked) : unacked[i] = cur.msg)
              => (queue' # <<>> /\ Head(queue') = cur.msg)
      ]_vars

\* C29, redelivery: with the broker available from then on and the process in the
\* end staying alive, a delivery that was pulled is eventually processed and logged,
\* whether or not the process dies while processing it.
C29_PulledEventuallyProcessed ==
    \A m \in RestartSamples :
        []((conPc = "process" /\ cur.msg.body.event_type = m.body.event_type
              /\ cur.result = "none" /\ []brokerUp /\ <>[](conPc # "down"))
            => <>Audited(m.body.event_type))

\* C29: the two parts together.
C29_AtLeastOnce ==
    /\ C29_AckOnlyAfterProcessing
    /\ C29_PulledEventuallyProcessed

\* C29 witness: the process died while processing the first delivery; after the
\* restart the same event was delivered again, processed, logged and acknowledged.
C29_RedeliveredAfterCrash ==
    /\ conPc = "next"
    /\ cur.tag = 2
    /\ cur.msg.id = 1
    /\ cur.result = "ok"
    /\ cur.acks = 1
    /\ Len(auditLog) = 1
    /\ \A i \in 1..Len(Held) : Held[i].id # 1

\* C30 (the claim as stated): a refresh token serves at most one successful refresh,
\* and no refresh succeeds on a token that a logout has revoked.
C30_RefreshTokensSingleUse ==
    /\ \A k \in 1..Len(auth.refreshed) : auth.refreshed[k] <= 1
    /\ ~auth.afterLogout

====
